---- MODULE Spec2Model ----
(***************************************************************************)
(* Portfolio valuation and trade application of the investments app:       *)
(* services.py (point queries, apply_trade) and selectors.py (ranged time  *)
(* series) over the Price, InitialWeight and HoldingAdjustment tables of   *)
(* models.py.                                                              *)
(*                                                                         *)
(* Decimal quantities are fixed-point integers counted in units of 10^-8   *)
(* ("scaled"); prices, notional values and the initial value are whole     *)
(* numbers.  Dates are day numbers.                                        *)
(*                                                                         *)
(* Four specifications: Spec (every call made as a whole, one at a time),  *)
(* SpecTx (apply_trade step by step inside its transaction, two clients,   *)
(* faults), SpecUnits (the unit computation of apply_trade alone) and      *)
(* SpecLog (different trades in sequence, with a history of the calls).    *)
(*                                                                         *)
(* A definition introduced as a "variant" is a deliberately wrong version  *)
(* of the definition that follows it, kept to test that the properties     *)
(* tell the two apart.                                                     *)
(***************************************************************************)
EXTENDS Integers, Sequences, FiniteSets, Bags, TLC

VARIABLES
    prices,     \* Price table: set of rows [asset, date, price]
    weights,    \* InitialWeight rows of the portfolio: set of [asset, weight]
    portfolio,  \* Portfolio row: [initial_value, initial_date]
    ledger,     \* HoldingAdjustment table (committed rows): bag of rows
    last,       \* the last call made and what it returned
    pc,         \* per client: position inside a stepwise apply_trade
    req,        \* per client: arguments of the running apply_trade
    loc,        \* per client: locals of the running apply_trade
    pending,    \* per client: rows inserted by the open transaction
    pre,        \* per client: committed ledger when the call began
    pin,        \* inputs of the unit computation checked in isolation
    pout,       \* its result
    trades      \* history: the apply_trade calls that returned, with their units

vars ==
    <<prices, weights, portfolio, ledger, last, pc, req, loc, pending, pre, pin, pout, trades>>

-----------------------------------------------------------------------------
(* Bounds and input sets *)

MaxDay == 3
MaxRows == 4

Dates == 1..MaxDay
Assets == {"EEUU", "Europa"}
TradeValues == {0, 1}
PID == "P1"

ONE8 == 100000000
CENT == 1000000

-----------------------------------------------------------------------------
(* Decimal arithmetic *)

Abs(x) == IF x < 0 THEN -x ELSE x
Sign(x) == IF x < 0 THEN -1 ELSE 1

\* One digit of long division: 10*r = q*m + r' with 0 <= r' < m, for 0 <= r < m,
\* computed without forming 10*r (which need not fit the integer width).
MulDiv10(r, m) ==
    LET qm == m \div 10
        rm == m % 10
        k == r \div qm
        rem0 == 10 * (r % qm) - k * rm
    IN IF rem0 < 0 THEN [q |-> k - 1, r |-> rem0 + m]
                   ELSE [q |-> k, r |-> rem0]

\* how many digits one long-division step by m can produce within the width
Chunk(m, places) ==
    IF places >= 8 /\ m <= 2147483647 \div ONE8 THEN 8
    ELSE IF places >= 4 /\ m <= 2147483647 \div 10000 THEN 4
    ELSE IF m <= 2147483647 \div 10 THEN 1
    ELSE 0

RECURSIVE FracDigits(_, _, _, _)
\* `places` further digits of r/m appended to acc: [f |-> digits, r |-> remainder]
FracDigits(r, m, places, acc) ==
    IF places = 0 THEN [f |-> acc, r |-> r]
    ELSE LET c == Chunk(m, places)
         IN IF c = 0
            THEN LET s == MulDiv10(r, m)
                 IN FracDigits(s.r, m, places - 1, acc * 10 + s.q)
            ELSE LET t == IF c = 8 THEN ONE8 ELSE IF c = 4 THEN 10000 ELSE 10
                 IN FracDigits((r * t) % m, m, places - c, acc * t + (r * t) \div m)

\* Rounding decision on the remainder r of a division by m, `kept` being the
\* part kept so far: TRUE when the last kept digit is to be incremented.
RoundUp(mode, r, m, kept) ==
    CASE mode = "ROUND_HALF_UP" -> r >= m - r
      [] mode = "ROUND_HALF_EVEN" -> (r > m - r) \/ (r = m - r /\ kept % 2 = 1)
      [] mode = "ROUND_DOWN" -> FALSE

\* n / m for n >= 0, m > 0, quantized to `places` decimals (0 or 8):
\* [i |-> integer part, f |-> fractional digits as an integer < 10^places]
Rounded(i0, d, m, places, mode) ==
    LET kept == IF places = 0 THEN i0 ELSE d.f
        up == RoundUp(mode, d.r, m, kept)
        f1 == IF up THEN d.f + 1 ELSE d.f
    IN IF places = 0
       THEN [i |-> IF up THEN i0 + 1 ELSE i0, f |-> 0]
       ELSE IF f1 = ONE8 THEN [i |-> i0 + 1, f |-> 0]
            ELSE [i |-> i0, f |-> f1]
DivQuantize(n, m, places, mode) ==
    Rounded(n \div m, FracDigits(n % m, m, places, 0), m, places, mode)

\* (value / price).quantize(Decimal("0.00000001"), rounding=ROUND_HALF_UP), for a
\* value of either sign (half-up rounds the magnitude): [neg, i, f]
Signed(negative, q) ==
    [neg |-> negative /\ (q.i # 0 \/ q.f # 0), i |-> q.i, f |-> q.f]
\* variant: the rounding of the decimal context (ROUND_HALF_EVEN)
QuantizeUnitsHalfEven(value, price) ==
    Signed(value < 0, DivQuantize(Abs(value), price, 8, "ROUND_HALF_EVEN"))
QuantizeUnits(value, price) ==
    Signed(value < 0, DivQuantize(Abs(value), price, 8, "ROUND_HALF_UP"))

\* Quantize a scaled amount x to a multiple of `step` scaled units
QuantizeScaled(x, step, mode) ==
    Sign(x) * DivQuantize(Abs(x), step, 0, mode).i * step

\* a quantized quotient as a scaled integer
Scaled(q) == (IF q.neg THEN -1 ELSE 1) * (q.i * ONE8 + q.f)

-----------------------------------------------------------------------------
(* The store: tables of models.py *)

NoDate == 0

\* HoldingAdjustment row
Row(asset, d, delta) ==
    [portfolio |-> PID, asset |-> asset, effective_date |-> d, delta_units |-> delta]

\* Price.objects.get(asset=asset, date=d): the rows it selects (at most one,
\* unique_together = ('asset', 'date'))
PriceRows(asset, d) == {r \in prices : r.asset = asset /\ r.date = d}
HasPrice(asset, d) == PriceRows(asset, d) # {}

\* services._price; callers test HasPrice first (Price.DoesNotExist otherwise)
_price(asset, d) == (CHOOSE r \in PriceRows(asset, d) : TRUE).price

\* variant: the earliest row on or before d
_price_or_previous_earliest(asset, d) ==
    LET cand == {r \in prices : r.asset = asset /\ r.date <= d}
    IN IF cand = {} THEN [ok |-> FALSE, price |-> 0, date |-> NoDate]
       ELSE LET p == CHOOSE r \in cand : \A o \in cand : o.date >= r.date
            IN [ok |-> TRUE, price |-> p.price, date |-> p.date]
\* services._price_or_previous: filter(asset=asset, date__lte=d).order_by('-date').first()
_price_or_previous(asset, d) ==
    LET cand == {r \in prices : r.asset = asset /\ r.date <= d}
    IN IF cand = {} THEN [ok |-> FALSE, price |-> 0, date |-> NoDate]
       ELSE LET p == CHOOSE r \in cand : \A o \in cand : o.date <= r.date
            IN [ok |-> TRUE, price |-> p.price, date |-> p.date]

\* The try/except around each leg's price lookup in apply_trade
ResolvePrice(asset, d, fallback) ==
    IF HasPrice(asset, d) THEN [ok |-> TRUE, price |-> _price(asset, d), date |-> d]
    ELSE IF fallback THEN _price_or_previous(asset, d)
    ELSE [ok |-> FALSE, price |-> 0, date |-> NoDate]

\* HoldingAdjustment.objects.filter(**kwargs).exists() on the rows L
RowExists(L, row) == BagIn(row, L)

\* variant: create without the existence check
CreateAlways(L, row) == L (+) SetToBag({row})
\* if not filter(**kwargs).exists(): create(**kwargs)
CreateIfAbsent(L, row) == IF RowExists(L, row) THEN L ELSE L (+) SetToBag({row})

-----------------------------------------------------------------------------
(* services.apply_trade, as one call *)

\* the requests made: one asset sold against another
TradeArgs ==
    {a \in [d : Dates, asset_sell : Assets, value_sell : TradeValues,
            asset_buy : Assets, value_buy : TradeValues, fallback : BOOLEAN] :
        a.asset_sell # a.asset_buy}

\* variant: quantize without rounding=ROUND_HALF_UP
TradeUnitsHalfEven(value, price) == QuantizeUnitsHalfEven(value, price)
\* units = (_q(value) / price).quantize(Decimal("0.00000001"), rounding=ROUND_HALF_UP);
\* _q converts to Decimal without rounding
TradeUnits(value, price) == QuantizeUnits(value, price)

\* variant: the row dated at the date of the price used
leg_kwargs_at_price_date(asset, d, price_date, delta) == Row(asset, price_date, delta)
\* sell_kwargs / buy_kwargs: the row of a leg; price_date is the date of the
\* price the leg resolved to
leg_kwargs(asset, d, price_date, delta) == Row(asset, d, delta)

TradeFailed ==
    [ok |-> FALSE, units_sell |-> 0, units_buy |-> 0,
     ps |-> 0, ps_date |-> NoDate, pb |-> 0, pb_date |-> NoDate]

\* apply_trade from the units on: the two guarded inserts and the return
\* value; s and b are the resolved prices
write_legs(L, a, s, b, units_sell, units_buy) ==
    LET sell_kwargs == leg_kwargs(a.asset_sell, a.d, s.date, -units_sell)
        buy_kwargs == leg_kwargs(a.asset_buy, a.d, b.date, units_buy)
    IN [ret |-> [ok |-> TRUE, units_sell |-> units_sell, units_buy |-> units_buy,
                 ps |-> s.price, ps_date |-> s.date,
                 pb |-> b.price, pb_date |-> b.date],
        ledger |-> CreateIfAbsent(CreateIfAbsent(L, sell_kwargs), buy_kwargs)]

\* apply_trade from the resolved prices on
trade_at(L, a, s, b) ==
    IF ~s.ok \/ ~b.ok THEN [ret |-> TradeFailed, ledger |-> L]
    ELSE write_legs(L, a, s, b, Scaled(TradeUnits(a.value_sell, s.price)),
                    Scaled(TradeUnits(a.value_buy, b.price)))

\* the result of apply_trade(a) run on the rows L, and the rows it leaves:
\* ok = FALSE when it raised (the transaction is rolled back: the rows are L)
apply_trade(L, a) ==
    trade_at(L, a, ResolvePrice(a.asset_sell, a.d, a.fallback),
             ResolvePrice(a.asset_buy, a.d, a.fallback))

-----------------------------------------------------------------------------
(* Sums over tables *)

RECURSIVE SumDelta(_, _)
\* Sum("delta_units") over the rows `rows` of the bag L, each counted as often
\* as it is stored
SumDelta(L, rows) ==
    IF rows = {} THEN 0
    ELSE LET r == CHOOSE x \in rows : TRUE
         IN r.delta_units * CopiesIn(r, L) + SumDelta(L, rows \ {r})

RECURSIVE SumOver(_, _)
\* sum of f[a] over the assets in S
SumOver(f, S) ==
    IF S = {} THEN 0
    ELSE LET a == CHOOSE x \in S : TRUE IN f[a] + SumOver(f, S \ {a})

WeightedAssets == {iw.asset : iw \in weights}
WeightOf(asset) == (CHOOSE iw \in weights : iw.asset = asset).weight

\* (w * V0 / p).quantize(Decimal("0.00000001"), rounding=ROUND_HALF_UP), scaled
InitialUnits(w, V0, p) == DivQuantize(w * V0, p, 0, "ROUND_HALF_UP").i

\* (x / t).quantize(Decimal("0.00000001")) of two scaled amounts, t # 0 a whole
\* number of cents (every divisor is a quantized total): x/t = (x / 10^6) / T with
\* T = t / 10^6, so the first six decimals are x \div T and two more follow.
\* [neg, i, f] as for QuantizeUnits
RatioQuantize(x, t, mode) ==
    LET T == Abs(t) \div CENT
        n == Abs(x)
        whole == n \div T
        low == ((n % T) * 100) \div T
        rem == ((n % T) * 100) % T
        f0 == (whole % CENT) * 100 + low
        f1 == IF RoundUp(mode, rem, T, f0) THEN f0 + 1 ELSE f0
        i1 == whole \div CENT + (IF f1 = ONE8 THEN 1 ELSE 0)
        f2 == IF f1 = ONE8 THEN 0 ELSE f1
    IN [neg |-> (Sign(x) # Sign(t)) /\ (i1 # 0 \/ f2 # 0), i |-> i1, f |-> f2]

-----------------------------------------------------------------------------
(* services.py: point queries *)

\* compute_initial_units_for_portfolio: raises Price.DoesNotExist when a weighted
\* asset has no price at initial_date; no weights give an empty mapping
compute_initial_units_for_portfolio ==
    LET t0 == portfolio.initial_date
    IN IF \E a \in WeightedAssets : ~HasPrice(a, t0)
       THEN [ok |-> FALSE, units |-> << >>]
       ELSE [ok |-> TRUE,
             units |-> [a \in WeightedAssets |->
                          InitialUnits(WeightOf(a), portfolio.initial_value, _price(a, t0))]]

\* the rows get_units_on_date aggregates:
\* filter(portfolio=portfolio, asset=asset, effective_date__lte=d)
AdjustmentRowsUpTo(L, asset, d) ==
    {r \in BagToSet(L) : r.portfolio = PID /\ r.asset = asset /\ r.effective_date <= d}

\* get_units_on_date once base_by_id is computed
units_from_base(base_by_id, L, asset, d) ==
    IF ~base_by_id.ok THEN [ok |-> FALSE, units |-> 0]
    ELSE LET base == IF asset \in DOMAIN base_by_id.units
                     THEN base_by_id.units[asset] ELSE 0
             delta == SumDelta(L, AdjustmentRowsUpTo(L, asset, d))
         IN [ok |-> TRUE, units |-> base + delta]

get_units_on_date(L, asset, d) ==
    units_from_base(compute_initial_units_for_portfolio, L, asset, d)

\* variant: the total truncated to cents
ValueQuantizeDown(total) == QuantizeScaled(total, CENT, "ROUND_DOWN")
\* total.quantize(Decimal("0.01"), rounding=ROUND_HALF_UP)
ValueQuantize(total) == QuantizeScaled(total, CENT, "ROUND_HALF_UP")

\* c * p of the loops of portfolio_value_on_date and portfolio_weights_on_date
AssetValue(L, a, d) == get_units_on_date(L, a, d).units * _price(a, d)

\* raises (ok = FALSE) when get_units_on_date or _price does
portfolio_value_on_date(L, d) ==
    IF ~compute_initial_units_for_portfolio.ok \/ \E a \in WeightedAssets : ~HasPrice(a, d)
    THEN [ok |-> FALSE, value |-> 0]
    ELSE [ok |-> TRUE,
          value |-> ValueQuantize(SumOver([a \in WeightedAssets |-> AssetValue(L, a, d)],
                                          WeightedAssets))]

\* portfolio_weights_on_date once Vt is computed
weights_from_value(Vt, L, d) ==
    IF ~Vt.ok THEN [ok |-> FALSE, weights |-> << >>]
    ELSE IF Vt.value = 0 THEN [ok |-> TRUE, weights |-> << >>]
    ELSE [ok |-> TRUE,
          weights |-> [a \in WeightedAssets |->
                RatioQuantize(AssetValue(L, a, d), Vt.value, "ROUND_HALF_UP")]]

portfolio_weights_on_date(L, d) == weights_from_value(portfolio_value_on_date(L, d), L, d)

-----------------------------------------------------------------------------
(* selectors.py: ranged time series *)

RECURSIVE daterange_excl(_, _)
\* variant: the end excluded
daterange_excl(start, end) ==
    IF start < end THEN <<start>> \o daterange_excl(start + 1, end) ELSE << >>

RECURSIVE daterange(_, _)
\* d = start; while d <= end: yield d; d += timedelta(days=1)
daterange(start, end) ==
    IF start <= end THEN <<start>> \o daterange(start + 1, end) ELSE << >>

\* _compute_initial_units_once: ValueError without weights or without a price
\* at initial_date for a weighted asset
_compute_initial_units_once ==
    LET t0 == portfolio.initial_date
    IN IF weights = {} \/ \E a \in WeightedAssets : ~HasPrice(a, t0)
       THEN [ok |-> FALSE, base_units |-> << >>]
       ELSE [ok |-> TRUE,
             base_units |-> [a \in WeightedAssets |->
                          InitialUnits(WeightOf(a), portfolio.initial_value, _price(a, t0))]]

\* asset names in alphabetical order
AssetOrder == <<"EEUU", "Europa">>

\* initial_units_for_all_assets: one row per weighted asset, sorted by asset
\* name; raises when _compute_initial_units_once does
initial_units_for_all_assets ==
    LET c == _compute_initial_units_once
        Weighted(a) == a \in DOMAIN c.base_units
        names == SelectSeq(AssetOrder, Weighted)
    IN IF ~c.ok THEN [ok |-> FALSE, rows |-> << >>]
       ELSE [ok |-> TRUE,
             rows |-> [k \in DOMAIN names |->
                         [asset |-> names[k], units |-> c.base_units[names[k]]]]]

\* variant: only the rows dated inside the range
CumsumRows_from_start(L, start, end) ==
    {r \in BagToSet(L) : r.portfolio = PID /\ r.effective_date <= end
                          /\ r.effective_date >= start}
\* the queryset of _adjustments_cumsum: rows of the portfolio up to `end`
CumsumRows(L, start, end) ==
    {r \in BagToSet(L) : r.portfolio = PID /\ r.effective_date <= end}

RECURSIVE SeriesFrom(_, _, _, _)
\* per_asset[asset]: the (effective_date, Sum(delta_units)) groups of the
\* queryset in ascending date order, built from day k on
SeriesFrom(L, rows, asset, k) ==
    IF k > MaxDay THEN << >>
    ELSE LET grp == {r \in rows : r.asset = asset /\ r.effective_date = k}
         IN (IF grp = {} THEN << >> ELSE << <<k, SumDelta(L, grp)>> >>)
            \o SeriesFrom(L, rows, asset, k + 1)

RECURSIVE SweepDay(_, _, _, _)
\* while idx < len(series) and series[idx][0] <= d: cum += series[idx][1]; idx += 1
\* (idx is 1-based here)
SweepDay(series, idx, cum, d) ==
    IF idx <= Len(series) /\ series[idx][1] <= d
    THEN SweepDay(series, idx + 1, cum + series[idx][2], d)
    ELSE [idx |-> idx, cum |-> cum]

RECURSIVE Sweep(_, _, _, _, _)
\* for d in all_dates: ...; out[(aid, d)] = cum  -- the cums, one per date
Sweep(series, all_dates, k, idx, cum) ==
    IF k > Len(all_dates) THEN << >>
    ELSE LET s == SweepDay(series, idx, cum, all_dates[k])
         IN <<s.cum>> \o Sweep(series, all_dates, k + 1, s.idx, s.cum)

\* _adjustments_cumsum: a mapping (asset, date) -> cumulative delta, with keys
\* only for the assets that have a row in the queryset
_adjustments_cumsum(L, start, end) ==
    LET rows == CumsumRows(L, start, end)
        per_asset == {r.asset : r \in rows}
        all_dates == daterange(start, end)
        out == [a \in per_asset |-> Sweep(SeriesFrom(L, rows, a, 1), all_dates, 1, 1, 0)]
    IN [key \in {<<a, all_dates[k]>> : a \in per_asset, k \in 1..Len(all_dates)} |->
            out[key[1]][key[2] - start + 1]]

\* adj_cum.get((aid, d), Decimal("0"))
AdjGet(adj_cum, aid, d) == IF <<aid, d>> \in DOMAIN adj_cum THEN adj_cum[<<aid, d>>] ELSE 0

\* variant: the flag ignored
AdjCumAlways(L, start, end, use_trades) == _adjustments_cumsum(L, start, end)
\* adj_cum = _adjustments_cumsum(portfolio, start, end) if use_trades else {}
AdjCum(L, start, end, use_trades) ==
    IF use_trades THEN _adjustments_cumsum(L, start, end) ELSE << >>

\* the assets the day loop values: price_map.get((aid, d)) is not None
PricedOn(asset_ids, d) == {a \in asset_ids : HasPrice(a, d)}

\* one iteration of the day loop of portfolio_time_series
\* the end of an iteration: the weights and the entry appended
DayResult(d, units, xi_by_asset, total_v) ==
    [d |-> d, units |-> units, Vt |-> total_v,
     weights |-> IF total_v > 0 /\ DOMAIN xi_by_asset # {}
                 THEN [a \in DOMAIN xi_by_asset |->
                         RatioQuantize(xi_by_asset[a], total_v, "ROUND_HALF_EVEN")]
                 ELSE << >>]

\* total_v = total_v.quantize(Decimal("0.01")) of the values summed
DayTotal(d, units, xi_by_asset) ==
    DayResult(d, units, xi_by_asset,
              QuantizeScaled(SumOver(xi_by_asset, DOMAIN xi_by_asset), CENT, "ROUND_HALF_EVEN"))

\* the asset loop: units of every asset, xval of the priced ones
DayValues(d, units) ==
    DayTotal(d, units, [a \in PricedOn(DOMAIN units, d) |-> units[a] * _price(a, d)])

DayEntry(base_units, adj_cum, d) ==
    DayValues(d, [a \in DOMAIN base_units |-> base_units[a] + AdjGet(adj_cum, a, d)])

\* variant: a day without the price of a weighted asset raises too
time_series_raises_on_gap(start, end) ==
    \/ ~_compute_initial_units_once.ok
    \/ \E d \in start..end, a \in WeightedAssets : ~HasPrice(a, d)
\* what makes portfolio_time_series raise: only the initial units (a day
\* without a price raises nothing)
time_series_raises(start, end) == ~_compute_initial_units_once.ok

\* the lists returned, from the entries e of the day loop (units: the units
\* the loop used, which it does not return)
SeriesOf(e) ==
    [ok |-> TRUE,
     dates |-> [k \in DOMAIN e |-> e[k].d],
     Vt |-> [k \in DOMAIN e |-> e[k].Vt],
     weights |-> [k \in DOMAIN e |-> e[k].weights],
     units |-> [k \in DOMAIN e |-> e[k].units]]

\* the day loop over the days of the range
DayLoop(base_units, adj_cum, days) ==
    SeriesOf([k \in 1..Len(days) |-> DayEntry(base_units, adj_cum, days[k])])

portfolio_time_series(L, start, end, use_trades) ==
    IF time_series_raises(start, end)
    THEN [ok |-> FALSE, dates |-> << >>, Vt |-> << >>, weights |-> << >>, units |-> << >>]
    ELSE DayLoop(_compute_initial_units_once.base_units,
                 AdjCum(L, start, end, use_trades), daterange(start, end))

-----------------------------------------------------------------------------
(* api/views.py and views.py: the views in front of portfolio_time_series *)

\* selectors.last_price_date, imported by the views: the date of the latest
\* Price row, None (NoDate) when the table is empty
last_price_date ==
    IF prices = {} THEN NoDate
    ELSE (CHOOSE r \in prices : \A o \in prices : o.date <= r.date).date

\* the response of a view that got `data` from portfolio_time_series: an
\* exception of the engine is not caught by the view
ViewResponse(data) ==
    IF ~data.ok THEN [ok |-> FALSE, status |-> 500, dates |-> << >>, Vt |-> << >>]
    ELSE [ok |-> TRUE, status |-> 200, dates |-> data.dates, Vt |-> data.Vt]

\* the body shared by PortfolioTimeSeriesApi.get, portfolio_charts and
\* portfolio_charts_no_trades once both dates are parsed: the only check is
\* fecha_fin against the last price date
time_series_view(L, fecha_inicio, fecha_fin, use_trades) ==
    IF last_price_date # NoDate /\ fecha_fin > last_price_date
    THEN [ok |-> FALSE, status |-> 400, dates |-> << >>, Vt |-> << >>]
    ELSE ViewResponse(portfolio_time_series(L, fecha_inicio, fecha_fin, use_trades))

-----------------------------------------------------------------------------
(* Initial stores *)

Clients == {1, 2}

\* whole-number prices cycling 2, 3, 6 over the days
CyclePrice(k) == CASE k % 3 = 1 -> 2 [] k % 3 = 2 -> 3 [] k % 3 = 0 -> 6
PriceRow(a, d) ==
    [asset |-> a, date |-> d, price |-> IF a = "EEUU" THEN CyclePrice(d) ELSE CyclePrice(d + 1)]

\* every asset priced every day
FullPrices == {PriceRow(a, d) : a \in Assets, d \in Dates}
\* sparse prices: EEUU only on days 1 and 2, Europa from day 2 on except day 3
GapPrices ==
    {PriceRow("EEUU", d) : d \in {x \in Dates : x <= 2}}
    \cup {PriceRow("Europa", d) : d \in {x \in Dates : x >= 2 /\ x # 3}}
\* EEUU has no price at the initial date
NoT0Prices ==
    {PriceRow("EEUU", d) : d \in {x \in Dates : x # 2}}
    \cup {PriceRow("Europa", d) : d \in Dates}

\* InitialWeight tables: 0.6/0.4, EEUU alone, none, and 0.03000003/0.96999997
\* (units 0.01000001 and 0.16166666, worth 0.505 at the prices 2 and 3)
W6040 == {[asset |-> "EEUU", weight |-> 60000000], [asset |-> "Europa", weight |-> 40000000]}
WHalfCent == {[asset |-> "EEUU", weight |-> 3000003], [asset |-> "Europa", weight |-> 96999997]}
WSingle == {[asset |-> "EEUU", weight |-> ONE8]}
WNone == {}

Stores ==
    { [prices |-> FullPrices, weights |-> W6040],
      [prices |-> FullPrices, weights |-> WSingle],
      [prices |-> FullPrices, weights |-> WNone],
      [prices |-> FullPrices, weights |-> WHalfCent],
      [prices |-> GapPrices, weights |-> W6040],
      [prices |-> NoT0Prices, weights |-> W6040] }

NoCall == [op |-> "none"]
NoReq == [d |-> NoDate]
NoLoc == [ps |-> 0, ps_date |-> NoDate, pb |-> 0, pb_date |-> NoDate]

InitStore ==
    /\ \E st \in Stores : prices = st.prices /\ weights = st.weights
    /\ portfolio = [initial_value |-> 1, initial_date |-> 2]
    /\ ledger = EmptyBag

InitIdle ==
    /\ pc = [c \in Clients |-> "idle"]
    /\ req = [c \in Clients |-> NoReq]
    /\ loc = [c \in Clients |-> NoLoc]
    /\ pending = [c \in Clients |-> EmptyBag]
    /\ pre = [c \in Clients |-> EmptyBag]

Init ==
    /\ InitStore
    /\ InitIdle
    /\ last = NoCall
    /\ pin = NoCall
    /\ pout = NoCall
    /\ trades = {}

-----------------------------------------------------------------------------
(* Calls, each made as a whole *)

storeVars == <<prices, weights, portfolio>>
logVars == <<trades>>
txVars == <<pc, req, loc, pending, pre>>
pureVars == <<pin, pout>>

\* the record of a call: its arguments, whether it returned (ok) or raised,
\* what it returned, and the ledger it ran on
Call(op, args, r) == [op |-> op, args |-> args, ok |-> r.ok, out |-> r, before |-> ledger]

\* Calls come one at a time (request-per-call): a call is made once the
\* previous result has been taken.
Idle == last = NoCall

\* the effect of an apply_trade call whose outcome is r
TradeDone(a, r, retry, first_ok) ==
    /\ ledger' = r.ledger
    /\ last' = Call("apply_trade", a, r.ret) @@ [retry |-> retry, first_ok |-> first_ok]
    /\ UNCHANGED <<logVars, storeVars, txVars, pureVars>>

FirstTrade(a, r) ==
    /\ BagCardinality(r.ledger) <= MaxRows
    /\ TradeDone(a, r, FALSE, r.ret.ok)

ApplyTrade ==
    \E a \in TradeArgs :
        /\ Idle
        /\ FirstTrade(a, apply_trade(ledger, a))

\* the same request sent again right after its first result (a client retry)
RetryTrade ==
    /\ last.op = "apply_trade"
    /\ ~last.retry
    /\ TradeDone(last.args, apply_trade(ledger, last.args), TRUE, last.ok)

GetUnitsOnDate ==
    \E asset \in Assets, d \in Dates :
        /\ Idle
        /\ last' = Call("get_units_on_date", [asset |-> asset, d |-> d],
                        get_units_on_date(ledger, asset, d))
        /\ UNCHANGED <<logVars, ledger, storeVars, txVars, pureVars>>

PortfolioValueOnDate ==
    \E d \in Dates :
        /\ Idle
        /\ last' = Call("portfolio_value_on_date", [d |-> d], portfolio_value_on_date(ledger, d))
        /\ UNCHANGED <<logVars, ledger, storeVars, txVars, pureVars>>

PortfolioWeightsOnDate ==
    \E d \in Dates :
        /\ Idle
        /\ last' = Call("portfolio_weights_on_date", [d |-> d],
                        portfolio_weights_on_date(ledger, d))
        /\ UNCHANGED <<logVars, ledger, storeVars, txVars, pureVars>>

\* the initial units asked for on their own: the service function and the
\* selector behind PortfolioInitialUnitsApi
ComputeInitialUnitsForPortfolio ==
    /\ Idle
    /\ last' = Call("compute_initial_units_for_portfolio", [portfolio |-> PID],
                    compute_initial_units_for_portfolio)
    /\ UNCHANGED <<logVars, ledger, storeVars, txVars, pureVars>>

InitialUnitsForAllAssets ==
    /\ Idle
    /\ last' = Call("initial_units_for_all_assets", [portfolio |-> PID],
                    initial_units_for_all_assets)
    /\ UNCHANGED <<logVars, ledger, storeVars, txVars, pureVars>>

PortfolioTimeSeries ==
    \E start \in Dates, end \in Dates, use_trades \in BOOLEAN :
        /\ Idle
        /\ last' = Call("portfolio_time_series",
                        [start |-> start, end |-> end, use_trades |-> use_trades],
                        portfolio_time_series(ledger, start, end, use_trades))
        /\ UNCHANGED <<logVars, ledger, storeVars, txVars, pureVars>>

\* GET /portfolios/<id>/timeseries
PortfolioTimeSeriesApi ==
    \E fecha_inicio \in Dates, fecha_fin \in Dates, use_trades \in BOOLEAN :
        /\ Idle
        /\ last' = Call("PortfolioTimeSeriesApi",
                        [start |-> fecha_inicio, end |-> fecha_fin, use_trades |-> use_trades],
                        time_series_view(ledger, fecha_inicio, fecha_fin, use_trades))
        /\ UNCHANGED <<logVars, ledger, storeVars, txVars, pureVars>>

\* the chart page with trades
portfolio_charts ==
    \E fi \in Dates, ff \in Dates :
        /\ Idle
        /\ last' = Call("portfolio_charts", [start |-> fi, end |-> ff, use_trades |-> TRUE],
                        time_series_view(ledger, fi, ff, TRUE))
        /\ UNCHANGED <<logVars, ledger, storeVars, txVars, pureVars>>

\* the chart page without trades
portfolio_charts_no_trades ==
    \E fi \in Dates, ff \in Dates :
        /\ Idle
        /\ last' = Call("portfolio_charts_no_trades",
                        [start |-> fi, end |-> ff, use_trades |-> FALSE],
                        time_series_view(ledger, fi, ff, FALSE))
        /\ UNCHANGED <<logVars, ledger, storeVars, txVars, pureVars>>

\* the caller takes the result
Return ==
    /\ last # NoCall
    /\ last' = NoCall
    /\ UNCHANGED <<logVars, ledger, storeVars, txVars, pureVars>>

Next ==
    \/ ApplyTrade
    \/ RetryTrade
    \/ GetUnitsOnDate
    \/ PortfolioValueOnDate
    \/ PortfolioWeightsOnDate
    \/ PortfolioTimeSeries
    \/ ComputeInitialUnitsForPortfolio
    \/ InitialUnitsForAllAssets
    \/ PortfolioTimeSeriesApi
    \/ portfolio_charts
    \/ portfolio_charts_no_trades
    \/ Return

Spec == Init /\ [][Next]_vars

-----------------------------------------------------------------------------
(* The unit computation of apply_trade on its own *)

MaxUnitValue == 12
MaxUnitPrice == 16

\* small values and prices, a price whose quotients end in a 5 at the ninth
\* decimal, and the trade of 200,000,000 sold at 120 and bought at 55
UnitInputs ==
    [value : 1..MaxUnitValue, price : (1..MaxUnitPrice) \cup {512}]
    \cup {[value |-> 200000000, price |-> 120], [value |-> 200000000, price |-> 55]}

InitUnits ==
    /\ prices = FullPrices /\ weights = W6040
    /\ portfolio = [initial_value |-> 1, initial_date |-> 2]
    /\ ledger = EmptyBag
    /\ InitIdle
    /\ last = NoCall
    /\ pin \in UnitInputs
    /\ pout = NoCall
    /\ trades = {}

ComputeUnits ==
    /\ pout = NoCall
    /\ pout' = [op |-> "units", value |-> pin.value, price |-> pin.price,
                units |-> TradeUnits(pin.value, pin.price)]
    /\ UNCHANGED <<logVars, pin, ledger, last, storeVars, txVars>>

NextInput ==
    /\ pout # NoCall
    /\ pin' \in UnitInputs
    /\ pout' = NoCall
    /\ UNCHANGED <<logVars, ledger, last, storeVars, txVars>>

NextUnits == ComputeUnits \/ NextInput

SpecUnits == InitUnits /\ [][NextUnits]_vars

-----------------------------------------------------------------------------
(* apply_trade step by step inside its transaction (@transaction.atomic),  *)
(* several requests at a time, with faults                                 *)

\* the requests made: one unit of value sold of EEUU and bought of Europa
TxArgs ==
    {a \in TradeArgs : a.asset_sell = "EEUU" /\ a.value_sell = 1 /\ a.value_buy = 1}

TxStores == {st \in Stores : st.weights = W6040 /\ st.prices \in {FullPrices, GapPrices}}

InitTx ==
    /\ \E st \in TxStores : prices = st.prices /\ weights = st.weights
    /\ portfolio = [initial_value |-> 1, initial_date |-> 2]
    /\ ledger = EmptyBag
    /\ InitIdle
    /\ last = NoCall
    /\ pin = NoCall
    /\ pout = NoCall
    /\ trades = {}

Active == {c \in Clients : pc[c] # "idle"}

\* the rows a transaction reads: the committed ones and its own
Visible(c) == ledger (+) pending[c]

\* variant: no atomic block, every create is committed at once
AutocommitWrite(committed, pend, row) ==
    [ledger |-> committed (+) SetToBag({row}), pending |-> pend]
\* create(**kwargs) inside the atomic block: the row stays with the
\* transaction until it commits
TxWrite(committed, pend, row) ==
    [ledger |-> committed, pending |-> pend (+) SetToBag({row})]

\* if not filter(**kwargs).exists(): create(**kwargs), by transaction c
TxCreateIfAbsent(c, row) ==
    IF RowExists(Visible(c), row)
    THEN [ledger |-> ledger, pending |-> pending[c]]
    ELSE TxWrite(ledger, pending[c], row)

\* the call of c ends: its locals go, `last` records how it ended
EndCall(c, ok, why) ==
    /\ pc' = [pc EXCEPT ![c] = "idle"]
    /\ req' = [req EXCEPT ![c] = NoReq]
    /\ loc' = [loc EXCEPT ![c] = NoLoc]
    /\ pending' = [pending EXCEPT ![c] = EmptyBag]
    /\ last' = [op |-> "apply_trade", client |-> c, ok |-> ok, why |-> why,
                args |-> req[c], legs |-> BagCardinality(pending[c]),
                out |-> IF ok
                        THEN [units_sell |-> Scaled(TradeUnits(req[c].value_sell, loc[c].ps)),
                              units_buy |-> Scaled(TradeUnits(req[c].value_buy, loc[c].pb))]
                        ELSE [units_sell |-> 0, units_buy |-> 0]]

\* an exception leaves the atomic block: the transaction is rolled back
Rollback(c, why) ==
    /\ EndCall(c, FALSE, why)
    /\ ledger' = ledger
    /\ pre' = [pre EXCEPT ![c] = EmptyBag]

\* the request arrives and the transaction begins
TxBegin(c) ==
    \E a \in TxArgs :
        /\ pc[c] = "idle"
        /\ BagCardinality(ledger) + 2 * (Cardinality(Active) + 1) <= MaxRows
        /\ pc' = [pc EXCEPT ![c] = "prices"]
        /\ req' = [req EXCEPT ![c] = a]
        /\ pre' = [pre EXCEPT ![c] = ledger]
        /\ UNCHANGED <<logVars, ledger, loc, pending, last, storeVars, pureVars>>

\* both prices are resolved, or the call raises
TxPrices(c) ==
    /\ pc[c] = "prices"
    /\ LET s == ResolvePrice(req[c].asset_sell, req[c].d, req[c].fallback)
           b == ResolvePrice(req[c].asset_buy, req[c].d, req[c].fallback)
       IN IF s.ok /\ b.ok
          THEN /\ loc' = [loc EXCEPT ![c] = [ps |-> s.price, ps_date |-> s.date,
                                             pb |-> b.price, pb_date |-> b.date]]
               /\ pc' = [pc EXCEPT ![c] = "sell"]
               /\ UNCHANGED <<logVars, ledger, req, pending, pre, last>>
          ELSE Rollback(c, "price")
    /\ UNCHANGED <<logVars, storeVars, pureVars>>

\* the sell leg: existence check, then insert
TxSell(c) ==
    /\ pc[c] = "sell"
    /\ LET units_sell == Scaled(TradeUnits(req[c].value_sell, loc[c].ps))
           sell_kwargs == leg_kwargs(req[c].asset_sell, req[c].d, loc[c].ps_date, -units_sell)
           w == TxCreateIfAbsent(c, sell_kwargs)
       IN /\ ledger' = w.ledger
          /\ pending' = [pending EXCEPT ![c] = w.pending]
    /\ pc' = [pc EXCEPT ![c] = "buy"]
    /\ UNCHANGED <<logVars, req, loc, pre, last, storeVars, pureVars>>

\* the buy leg: existence check, then insert
TxBuy(c) ==
    /\ pc[c] = "buy"
    /\ LET units_buy == Scaled(TradeUnits(req[c].value_buy, loc[c].pb))
           buy_kwargs == leg_kwargs(req[c].asset_buy, req[c].d, loc[c].pb_date, units_buy)
           w == TxCreateIfAbsent(c, buy_kwargs)
       IN /\ ledger' = w.ledger
          /\ pending' = [pending EXCEPT ![c] = w.pending]
    /\ pc' = [pc EXCEPT ![c] = "commit"]
    /\ UNCHANGED <<logVars, req, loc, pre, last, storeVars, pureVars>>

\* the call returns: the transaction commits its rows.  pre[c2] of a call
\* still running follows the commit: it is the committed ledger without the
\* rows of c2's own call.
TxCommit(c) ==
    /\ pc[c] = "commit"
    /\ ledger' = ledger (+) pending[c]
    /\ pre' = [c2 \in Clients |->
                 IF c2 = c THEN EmptyBag
                 ELSE IF pc[c2] # "idle" THEN pre[c2] (+) pending[c]
                 ELSE pre[c2]]
    /\ EndCall(c, TRUE, "returned")
    /\ UNCHANGED <<logVars, storeVars, pureVars>>

\* a fault (database error, killed worker) at any point after the prices
TxFault(c) ==
    /\ pc[c] \in {"sell", "buy", "commit"}
    /\ Rollback(c, "fault")
    /\ UNCHANGED <<logVars, storeVars, pureVars>>

NextTx ==
    \E c \in Clients :
        \/ TxBegin(c)
        \/ TxPrices(c)
        \/ TxSell(c)
        \/ TxBuy(c)
        \/ TxCommit(c)
        \/ TxFault(c)

SpecTx == InitTx /\ [][NextTx]_vars

-----------------------------------------------------------------------------
(* A sequence of different trades, each call made as a whole and recorded *)

MaxCalls == 3

\* the requests of TradeApi.post, which leaves fallback_to_previous_price at
\* its default
LogArgs == {a \in TradeArgs : a.fallback}

LogStores == {st \in Stores : st.weights = W6040 /\ st.prices \in {FullPrices, GapPrices}}

InitLog ==
    /\ \E st \in LogStores : prices = st.prices /\ weights = st.weights
    /\ portfolio = [initial_value |-> 1, initial_date |-> 2]
    /\ ledger = EmptyBag
    /\ InitIdle
    /\ last = NoCall
    /\ pin = NoCall
    /\ pout = NoCall
    /\ trades = {}

\* the effect of a recorded call whose outcome is r: a call that raised
\* leaves no record
Recorded(a, r) ==
    /\ ledger' = r.ledger
    /\ last' = Call("apply_trade", a, r.ret)
    /\ trades' = IF r.ret.ok
                 THEN trades \cup {[args |-> a, units_sell |-> r.ret.units_sell,
                                    units_buy |-> r.ret.units_buy]}
                 ELSE trades
    /\ UNCHANGED <<storeVars, txVars, pureVars>>

\* a request whose arguments differ from those of every call before it
TradeRequest ==
    \E a \in LogArgs :
        /\ Cardinality(trades) < MaxCalls
        /\ \A t \in trades : t.args # a
        /\ Recorded(a, apply_trade(ledger, a))

NextLog == TradeRequest

SpecLog == InitLog /\ [][NextLog]_vars

-----------------------------------------------------------------------------
(* Properties *)

IsTrade == last.op = "apply_trade"
IsSeries == last.op = "portfolio_time_series"

\* C1: a successful apply_trade repeated at once with the same arguments
\* succeeds again and leaves the ledger as the first call left it: the same
\* rows, the same row count.
C1_Idempotent ==
    (IsTrade /\ last.retry /\ last.first_ok) =>
        /\ last.ok
        /\ ledger = last.before
        /\ BagCardinality(ledger) = BagCardinality(last.before)

\* a repeated call whose first run wrote both legs
C1_Witness ==
    /\ IsTrade /\ last.retry /\ last.first_ok
    /\ BagCardinality(last.before) >= 2
    /\ last.out.units_sell > 0 /\ last.out.units_buy > 0

\* C3: on success with start <= end, dates, Vt and weights have one entry per
\* calendar day of [start, end]; dates run from start to end in steps of one day.
C3_Shape ==
    (IsSeries /\ last.ok /\ last.args.start <= last.args.end) =>
        LET n == last.args.end - last.args.start + 1
            r == last.out
        IN /\ Len(r.dates) = n /\ Len(r.Vt) = n /\ Len(r.weights) = n
           /\ r.dates[1] = last.args.start
           /\ r.dates[n] = last.args.end
           /\ \A k \in 1..(n - 1) : r.dates[k + 1] = r.dates[k] + 1

\* a series over several days, one of them without any price, with adjustments
C3_Witness ==
    /\ IsSeries /\ last.ok
    /\ last.args.start < last.args.end
    /\ \E d \in last.args.start..last.args.end : \A a \in Assets : ~HasPrice(a, d)
    /\ ledger # EmptyBag

\* C4: with use_trades = False the series is the one computed on an empty
\* ledger, whichever value use_trades has there.
C4_IgnoresLedger ==
    (IsSeries /\ ~last.args.use_trades) =>
        \A ut \in BOOLEAN :
            LET e == portfolio_time_series(EmptyBag, last.args.start, last.args.end, ut)
            IN /\ last.ok = e.ok
               /\ last.out.dates = e.dates
               /\ last.out.Vt = e.Vt
               /\ last.out.weights = e.weights

\* a series without trades on a ledger whose rows change the series with trades
C4_Witness ==
    /\ IsSeries /\ ~last.args.use_trades /\ last.ok
    /\ portfolio_time_series(ledger, last.args.start, last.args.end, TRUE).Vt # last.out.Vt

IsValue == last.op = "portfolio_value_on_date"

WeightsSumToOne == SumOver([a \in WeightedAssets |-> WeightOf(a)], WeightedAssets) = ONE8
T0Priced == \A a \in WeightedAssets : HasPrice(a, portfolio.initial_date)

\* value returned for initial_date is initial_value to the cent: the units are
\* rounded to 8 decimals (an error of at most half of 10^-8 per asset, times
\* its price) and the total to 2
EqualsInitialValue(value) ==
    LET t0 == portfolio.initial_date
        tol == CENT + SumOver([a \in WeightedAssets |-> _price(a, t0)], WeightedAssets)
    IN 2 * Abs(value - portfolio.initial_value * ONE8) <= tol

\* C5 as stated: with weights summing to 1 and every weighted asset priced at
\* initial_date, portfolio_value_on_date(initial_date) is initial_value within
\* 2-decimal rounding in every reachable state, trades applied or not.
C5_Original ==
    (IsValue /\ last.args.d = portfolio.initial_date /\ WeightsSumToOne /\ T0Priced) =>
        (last.ok /\ EqualsInitialValue(last.out.value))

\* no weighted asset has a net adjustment dated on or before initial_date
NoNetAdjustmentAtT0(L) ==
    \A a \in WeightedAssets :
        SumDelta(L, AdjustmentRowsUpTo(L, a, portfolio.initial_date)) = 0

\* C5, amended: the same, in the states where the adjustments dated on or
\* before initial_date add up to zero for every weighted asset (in particular
\* when there is none).
C5_ValueAtT0 ==
    (IsValue /\ last.args.d = portfolio.initial_date /\ WeightsSumToOne /\ T0Priced
        /\ NoNetAdjustmentAtT0(ledger)) =>
        (last.ok /\ EqualsInitialValue(last.out.value))

\* the value at initial_date asked after a trade dated later
C5_Witness ==
    /\ IsValue /\ last.args.d = portfolio.initial_date /\ WeightsSumToOne /\ T0Priced
    /\ NoNetAdjustmentAtT0(ledger)
    /\ \E r \in BagToSet(ledger) : r.delta_units # 0
    /\ last.ok

\* the price rows of an asset dated on or before d
PricesUpTo(asset, d) == {r \in prices : r.asset = asset /\ r.date <= d}

\* a leg resolves: on the exact date, or with fallback on an earlier one
LegResolves(asset, d, fallback) ==
    \/ \E r \in prices : r.asset = asset /\ r.date = d
    \/ fallback /\ PricesUpTo(asset, d) # {}

\* (p, pd) is the asset's price of the greatest date <= d (the exact date's
\* price when there is one)
LatestPriceIs(asset, d, p, pd) ==
    /\ pd <= d
    /\ \E r \in PricesUpTo(asset, d) : r.price = p /\ r.date = pd
    /\ \A r \in PricesUpTo(asset, d) : r.date <= pd

\* C6: each leg uses the exact-date price when there is one, else (fallback
\* enabled) the price of the greatest date <= the trade date, never a later
\* one; the call fails when a leg has no such price, or has no exact price with
\* fallback disabled; a failing call writes nothing.
C6_PriceResolution ==
    IsTrade =>
        LET a == last.args
        IN /\ last.ok <=> (LegResolves(a.asset_sell, a.d, a.fallback)
                           /\ LegResolves(a.asset_buy, a.d, a.fallback))
           /\ last.ok => /\ LatestPriceIs(a.asset_sell, a.d, last.out.ps, last.out.ps_date)
                         /\ LatestPriceIs(a.asset_buy, a.d, last.out.pb, last.out.pb_date)
           /\ ~last.ok => ledger = last.before

\* a trade whose sell leg took the latest of several earlier prices
C6_Witness ==
    /\ IsTrade /\ last.ok
    /\ last.out.ps_date < last.args.d
    /\ \E r \in prices : r.asset = last.args.asset_sell /\ r.date < last.out.ps_date

\* the rows a call's legs stand for, from its arguments and its result
SellRowOf(c) == Row(c.args.asset_sell, c.args.d, -c.out.units_sell)
BuyRowOf(c) == Row(c.args.asset_buy, c.args.d, c.out.units_buy)

\* what C7 says of a successful call on a ledger without its rows
WritesBothLegs ==
    LET s == SellRowOf(last)
        b == BuyRowOf(last)
    IN /\ ledger = last.before (+) SetToBag({s}) (+) SetToBag({b})
       /\ BagCardinality(ledger) = BagCardinality(last.before) + 2
       /\ s.delta_units < 0 /\ b.delta_units > 0
       /\ s.effective_date = last.args.d /\ b.effective_date = last.args.d
       /\ last.out.units_sell = Abs(s.delta_units)
       /\ last.out.units_buy = Abs(b.delta_units)

FreshLegs ==
    /\ IsTrade /\ last.ok
    /\ ~BagIn(SellRowOf(last), last.before)
    /\ ~BagIn(BuyRowOf(last), last.before)

C9_SweepAgrees ==
    (IsSeries /\ last.ok /\ last.args.use_trades) =>
        \A k \in 1..Len(last.out.dates) : \A a \in WeightedAssets :
            LET d == last.out.dates[k]
                point == get_units_on_date(ledger, a, d)
                upto == {r \in BagToSet(ledger) : r.asset = a /\ r.effective_date <= d}
            IN /\ last.out.units[k][a] =
                    InitialUnits(WeightOf(a), portfolio.initial_value,
                                 _price(a, portfolio.initial_date))
                    + SumDelta(ledger, upto)
               /\ point.ok
               /\ last.out.units[k][a] = point.units

\* a series starting after one adjustment of a weighted asset and ending on
\* the day of another
C9_Witness ==
    /\ IsSeries /\ last.ok /\ last.args.use_trades
    /\ last.args.start < last.args.end
    /\ \E a \in WeightedAssets :
        /\ \E r \in BagToSet(ledger) :
              r.asset = a /\ r.delta_units # 0 /\ r.effective_date < last.args.start
        /\ \E r \in BagToSet(ledger) :
              r.asset = a /\ r.delta_units # 0 /\ r.effective_date = last.args.end

IsPointValuation ==
    last.op \in {"portfolio_value_on_date", "portfolio_weights_on_date"}

Unpriced(d) == {a \in WeightedAssets : \A r \in prices : ~(r.asset = a /\ r.date = d)}

\* the entry of day d in a returned series: Vt is the value of the priced
\* assets alone, to the cent, and no unpriced asset has a weight
GapEntry(d) ==
    LET k == d - last.args.start + 1
        priced == WeightedAssets \ Unpriced(d)
        sum == SumOver([a \in priced |-> last.out.units[k][a] * _price(a, d)], priced)
    IN /\ k <= Len(last.out.dates) /\ last.out.dates[k] = d
       /\ 2 * Abs(last.out.Vt[k] - sum) <= CENT
       /\ priced = {} => last.out.Vt[k] = 0
       /\ \A a \in Unpriced(d) : a \notin DOMAIN last.out.weights[k]

SeriesSkipsGaps ==
    IsSeries =>
        \A d \in last.args.start..last.args.end :
            Unpriced(d) # {} => (last.ok /\ GapEntry(d))

PointFailsOnGap ==
    (IsPointValuation /\ Unpriced(last.args.d) # {}) => ~last.ok

\* C10 as stated: whatever day of the range lacks a price of a weighted asset,
\* the series returns an entry for it that values the priced assets only and
\* has no weight for the unpriced one, while the point valuations of that day
\* fail.
C10_Original == SeriesSkipsGaps /\ PointFailsOnGap

InitialUnitsComputable ==
    /\ WeightedAssets # {}
    /\ Unpriced(portfolio.initial_date) = {}

\* C10, amended: the same for the portfolios whose initial units can be
\* computed, that is with every weighted asset priced at initial_date.
C10_GapsSkipped == InitialUnitsComputable => (SeriesSkipsGaps /\ PointFailsOnGap)

\* a returned series with a day where one asset is priced and the other not,
\* and a day where none is
C10_Witness ==
    /\ IsSeries /\ last.ok /\ InitialUnitsComputable
    /\ \E d \in last.args.start..last.args.end :
          /\ Unpriced(d) # {} /\ Unpriced(d) # WeightedAssets
          /\ last.out.Vt[d - last.args.start + 1] > 0
    /\ \E d \in last.args.start..last.args.end : Unpriced(d) = WeightedAssets

\* the remainder value * 10^8 - units * price of a quotient rounded to
\* [i, f], i whole units and f hundred-millionths
UnitsRemainder(value, price, u) == (value - u.i * price) * ONE8 - u.f * price

\* C8: the units of a positive value at a price are value / price rounded
\* half-up to 8 decimals, that is the multiple of 10^-8 nearest to the quotient
\* and the upper one of the two when it lies halfway; 200,000,000 at 120 gives
\* 1,666,666.66666667 and at 55 gives 3,636,363.63636364.
C8_HalfUp ==
    pout # NoCall =>
        LET u == pout.units
            R == UnitsRemainder(pout.value, pout.price, u)
        IN /\ ~u.neg /\ u.i >= 0 /\ u.f \in 0..(ONE8 - 1)
           /\ pout.value <= MaxUnitValue =>
                (-pout.price <= 2 * R /\ 2 * R < pout.price)
           /\ (pout.value = 200000000 /\ pout.price = 120) =>
                (u.i = 1666666 /\ u.f = 66666667)
           /\ (pout.value = 200000000 /\ pout.price = 55) =>
                (u.i = 3636363 /\ u.f = 63636364)

\* a quotient lying exactly halfway, 1 / 512 = 0.001953125, rounded up
C8_Witness ==
    /\ pout # NoCall
    /\ pout.value = 1 /\ pout.price = 512
    /\ 2 * UnitsRemainder(1, 512, pout.units) = -512
    /\ pout.units.f = 195313

TxEnds(c) == pc[c] # "idle" /\ pc'[c] = "idle"

\* C2: the committed ledger never shows a part of a running call; a call that
\* returns leaves the ledger it found plus those of its two legs that were not
\* there, so that both are there; a call that fails, on a price or by a fault at
\* any point (between the two inserts included), leaves the ledger it found.
C2_Atomic ==
    [][\A c \in Clients :
          /\ pc'[c] # "idle" => ledger' = pre'[c]
          /\ (TxEnds(c) /\ ~last'.ok) => ledger' = pre[c]
          /\ (TxEnds(c) /\ last'.ok) =>
                /\ BagIn(SellRowOf(last'), ledger')
                /\ BagIn(BuyRowOf(last'), ledger')
                /\ \E X \in SUBSET {SellRowOf(last'), BuyRowOf(last')} :
                      ledger' = pre[c] (+) SetToBag(X)]_vars

\* a call ended by a fault after its sell leg was inserted and before its buy
\* leg, on a ledger that holds the rows of an earlier call
C2_Witness ==
    /\ last.op = "apply_trade" /\ ~last.ok
    /\ last.why = "fault" /\ last.legs = 1
    /\ ledger # EmptyBag

\* the calls that compute the initial units, by either implementation
UsesSelectorUnits == last.op \in {"initial_units_for_all_assets", "portfolio_time_series"}
UsesServiceUnits ==
    last.op \in {"compute_initial_units_for_portfolio", "get_units_on_date",
                 "portfolio_value_on_date", "portfolio_weights_on_date"}

\* the portfolio has no InitialWeight row, or a weighted asset has no price
\* dated exactly initial_date
InitialUnitsUndefined ==
    \/ weights = {}
    \/ \E iw \in weights :
          \A r \in prices : ~(r.asset = iw.asset /\ r.date = portfolio.initial_date)

\* C11 as stated: without InitialWeight rows, or with a weighted asset unpriced
\* at exactly initial_date, the initial-units computation fails with an error
\* in both implementations, and so does every call that uses it.
C11_Original ==
    (InitialUnitsUndefined /\ (UsesSelectorUnits \/ UsesServiceUnits)) => ~last.ok

\* the initial units of an asset: w * V0 / P0 rounded half-up to 8 decimals,
\* none for an asset without an InitialWeight row
BaseUnitsOf(asset) ==
    IF asset \in WeightedAssets
    THEN InitialUnits(WeightOf(asset), portfolio.initial_value,
                      _price(asset, portfolio.initial_date))
    ELSE 0

\* C12 as stated: in every state reached by apply_trade calls,
\* get_units_on_date for a date earlier than initial_date returns exactly the
\* asset's initial units (no adjustment is counted) and does not raise because
\* of the date.
C12_Original ==
    (last.op = "get_units_on_date" /\ last.args.d < portfolio.initial_date
        /\ last.args.asset \in WeightedAssets /\ T0Priced) =>
        /\ last.ok
        /\ last.out.units = BaseUnitsOf(last.args.asset)

\* a request for a time series, by any of its paths
IsSeriesRequest ==
    last.op \in {"portfolio_time_series", "PortfolioTimeSeriesApi",
                 "portfolio_charts", "portfolio_charts_no_trades"}

\* C13 as stated: on every path to portfolio_time_series (API view, chart
\* views, direct call) a range with start later than end ends in an error and
\* never in a successful result.
C13_Original ==
    (IsSeriesRequest /\ last.args.start > last.args.end) => ~last.ok

\* q is the scaled amount x rounded half-up to a multiple of step: the nearest
\* multiple, the one away from zero when x lies halfway
IsHalfUpOf(q, x, step) ==
    /\ q % step = 0
    /\ q = 0 \/ Sign(q) = Sign(x)
    /\ 2 * (Abs(q) - Abs(x)) <= step
    /\ 2 * (Abs(x) - Abs(q)) < step

\* the exact value of the assets priced on day number k of a returned series
ExactDayValue(k) ==
    LET d == last.out.dates[k]
        priced == {a \in WeightedAssets : HasPrice(a, d)}
    IN SumOver([a \in priced |-> last.out.units[k][a] * _price(a, d)], priced)

\* the ledger a series was computed on
SeriesLedger == IF last.args.use_trades THEN ledger ELSE EmptyBag

\* C14 as stated: every Vt entry of the series is the exact sum of units x
\* price over the priced assets rounded half-up to 2 decimals, every weight is
\* asset value / Vt rounded half-up to 8 decimals, and on a day where every
\* weighted asset is priced the Vt entry equals portfolio_value_on_date.
C14_Original ==
    (IsSeries /\ last.ok) =>
        \A k \in 1..Len(last.out.dates) :
            LET d == last.out.dates[k]
                Vt == last.out.Vt[k]
                w == last.out.weights[k]
            IN /\ IsHalfUpOf(Vt, ExactDayValue(k), CENT)
               /\ \A a \in DOMAIN w :
                     w[a] = RatioQuantize(last.out.units[k][a] * _price(a, d), Vt,
                                          "ROUND_HALF_UP")
               /\ (\A a \in WeightedAssets : HasPrice(a, d)) =>
                     Vt = portfolio_value_on_date(SeriesLedger, d).value

\* C15 as stated: however two apply_trade calls with identical arguments
\* interleave as separate transactions, the committed ledger holds at most one
\* row for each (portfolio, asset, effective_date, delta_units).
C15_Original ==
    \A r \in BagToSet(ledger) : CopiesIn(r, ledger) <= 1

\* the ledger's cumulative delta of an asset
LedgerDelta(asset) ==
    SumDelta(ledger, {r \in BagToSet(ledger) : r.portfolio = PID /\ r.asset = asset})

RECURSIVE TradedDelta(_, _)
\* what the calls T traded of an asset: -units_sell of those selling it plus
\* units_buy of those buying it
TradedDelta(T, asset) ==
    IF T = {} THEN 0
    ELSE LET t == CHOOSE x \in T : TRUE
         IN (IF t.args.asset_sell = asset THEN -t.units_sell ELSE 0)
            + (IF t.args.asset_buy = asset THEN t.units_buy ELSE 0)
            + TradedDelta(T \ {t}, asset)

\* C16 as stated: after successful apply_trade calls with pairwise different
\* arguments, the cumulative ledger delta of each asset is the sum over all the
\* calls of -units_sell for those selling it and +units_buy for those buying it.
C16_Original ==
    \A asset \in Assets : LedgerDelta(asset) = TradedDelta(trades, asset)

\* the assets the portfolio holds: those weighted and those traded
HeldAssets == WeightedAssets \cup {r.asset : r \in BagToSet(ledger)}

\* units of an asset on day d: its base units plus every delta dated up to d
HeldUnits(a, d) == BaseUnitsOf(a) + SumDelta(ledger, AdjustmentRowsUpTo(ledger, a, d))

\* the value on day d of everything held, every held asset being priced on d
HeldValue(d) == SumOver([a \in HeldAssets |-> HeldUnits(a, d) * _price(a, d)], HeldAssets)
HeldPriced(d) == \A a \in HeldAssets : HasPrice(a, d)

\* a successful trade of equal values at the prices of the trade date itself,
\* neither leg of which was in the ledger
BalancedTrade ==
    /\ FreshLegs
    /\ last.args.value_sell = last.args.value_buy
    /\ last.out.ps_date = last.args.d /\ last.out.pb_date = last.args.d

\* the value on the trade date is the same before and after the last trade,
\* up to the rounding of the two legs' units and of the two totals
ValueKept ==
    LET d == last.args.d
        v0 == portfolio_value_on_date(last.before, d)
        v1 == portfolio_value_on_date(ledger, d)
    IN (v0.ok /\ v1.ok) =>
          2 * Abs(v1.value - v0.value) <= 2 * CENT + last.out.ps + last.out.pb

\* C17 as stated: on a day where all held assets are priced, the units of
\* every traded asset, with or without an InitialWeight row, enter the value
\* returned by portfolio_value_on_date and by portfolio_time_series with
\* use_trades; so a trade of equal values at the exact trade-date prices leaves
\* the value on the trade date unchanged within rounding.
C17_Original ==
    /\ (IsValue /\ last.ok /\ HeldPriced(last.args.d)) =>
          2 * Abs(last.out.value - HeldValue(last.args.d)) <= CENT
    /\ (IsSeries /\ last.ok /\ last.args.use_trades) =>
          \A k \in 1..Len(last.out.dates) :
              HeldPriced(last.out.dates[k]) =>
                 2 * Abs(last.out.Vt[k] - HeldValue(last.out.dates[k])) <= CENT
    /\ BalancedTrade => ValueKept

====
